---------------------------- MODULE Spec2Model ----------------------------
(***************************************************************************)
(* septafs: a read-only FUSE file system over the SEPTA transit API.       *)
(*                                                                         *)
(* The model covers src/septa/fs.go (the node tree built by FS.Root and    *)
(* the Attr / ReadDir / Lookup / Open / ReadAll methods of its five node   *)
(* types) and src/septa/api.go (TransitView, RouteAlerts, stripHTML,       *)
(* traverseHTML, BusTrolley.String).                                       *)
(*                                                                         *)
(* Representation.  A Go string that the code only compares or passes on   *)
(* is a TLA+ string.  A string or []byte that the code BUILDS is a         *)
(* sequence of pieces, each piece a literal of the source, a value         *)
(* substituted by a format verb, or a single character; Go's append and    *)
(* Sprintf are \o.  A uint64 inode is its 8 bytes, least significant       *)
(* first.  A Go error is a string, "nil" for no error.                     *)
(***************************************************************************)
EXTENDS Integers, Sequences, FiniteSets, TLC

Range(s) == { s[i] : i \in DOMAIN s }

(***************************************************************************)
(* The route catalogs (fs.go:17-28), and the bytes of every name that is   *)
(* hashed into an inode.                                                   *)
(***************************************************************************)
tRouteIDs ==
  << "10", "11", "13", "15", "34", "36", "101", "102" >>

bRouteIDs ==
  << "1", "2", "3", "4", "5", "6", "7", "8", "9", "12", "14", "16", "17",
     "18", "19", "20", "21", "22", "23", "24", "25", "26", "27", "28",
     "29", "30", "31", "32", "33", "35", "37", "38", "39", "40", "42",
     "43", "44", "46", "47", "47m", "48", "50", "52", "53", "54", "55",
     "56", "57", "58", "59", "60", "61", "62", "64", "65", "66", "67",
     "68", "70", "73", "75", "77", "78", "79", "80", "84", "88", "89", "G",
     "H", "XH", "J", "K", "L", "R", "LUCY", "90", "91", "92", "93", "94",
     "95", "96", "97", "98", "99", "103", "104", "105", "106", "107",
     "108", "109", "110", "111", "112", "113", "114", "115", "116", "117",
     "118", "119", "120", "123", "124", "125", "126", "127", "128", "129",
     "130", "131", "132", "133", "139", "150", "201", "204", "205", "206",
     "310" >>

Utf8 ==
  "10" :> <<49, 48>> @@ "11" :> <<49, 49>> @@ "13" :> <<49, 51>> @@
  "15" :> <<49, 53>> @@ "34" :> <<51, 52>> @@ "36" :> <<51, 54>> @@
  "101" :> <<49, 48, 49>> @@ "102" :> <<49, 48, 50>> @@ "1" :> <<49>> @@
  "2" :> <<50>> @@ "3" :> <<51>> @@ "4" :> <<52>> @@
  "5" :> <<53>> @@ "6" :> <<54>> @@ "7" :> <<55>> @@
  "8" :> <<56>> @@ "9" :> <<57>> @@ "12" :> <<49, 50>> @@
  "14" :> <<49, 52>> @@ "16" :> <<49, 54>> @@ "17" :> <<49, 55>> @@
  "18" :> <<49, 56>> @@ "19" :> <<49, 57>> @@ "20" :> <<50, 48>> @@
  "21" :> <<50, 49>> @@ "22" :> <<50, 50>> @@ "23" :> <<50, 51>> @@
  "24" :> <<50, 52>> @@ "25" :> <<50, 53>> @@ "26" :> <<50, 54>> @@
  "27" :> <<50, 55>> @@ "28" :> <<50, 56>> @@ "29" :> <<50, 57>> @@
  "30" :> <<51, 48>> @@ "31" :> <<51, 49>> @@ "32" :> <<51, 50>> @@
  "33" :> <<51, 51>> @@ "35" :> <<51, 53>> @@ "37" :> <<51, 55>> @@
  "38" :> <<51, 56>> @@ "39" :> <<51, 57>> @@ "40" :> <<52, 48>> @@
  "42" :> <<52, 50>> @@ "43" :> <<52, 51>> @@ "44" :> <<52, 52>> @@
  "46" :> <<52, 54>> @@ "47" :> <<52, 55>> @@ "47m" :> <<52, 55, 109>> @@
  "48" :> <<52, 56>> @@ "50" :> <<53, 48>> @@ "52" :> <<53, 50>> @@
  "53" :> <<53, 51>> @@ "54" :> <<53, 52>> @@ "55" :> <<53, 53>> @@
  "56" :> <<53, 54>> @@ "57" :> <<53, 55>> @@ "58" :> <<53, 56>> @@
  "59" :> <<53, 57>> @@ "60" :> <<54, 48>> @@ "61" :> <<54, 49>> @@
  "62" :> <<54, 50>> @@ "64" :> <<54, 52>> @@ "65" :> <<54, 53>> @@
  "66" :> <<54, 54>> @@ "67" :> <<54, 55>> @@ "68" :> <<54, 56>> @@
  "70" :> <<55, 48>> @@ "73" :> <<55, 51>> @@ "75" :> <<55, 53>> @@
  "77" :> <<55, 55>> @@ "78" :> <<55, 56>> @@ "79" :> <<55, 57>> @@
  "80" :> <<56, 48>> @@ "84" :> <<56, 52>> @@ "88" :> <<56, 56>> @@
  "89" :> <<56, 57>> @@ "G" :> <<71>> @@ "H" :> <<72>> @@
  "XH" :> <<88, 72>> @@ "J" :> <<74>> @@ "K" :> <<75>> @@
  "L" :> <<76>> @@ "R" :> <<82>> @@ "LUCY" :> <<76, 85, 67, 89>> @@
  "90" :> <<57, 48>> @@ "91" :> <<57, 49>> @@ "92" :> <<57, 50>> @@
  "93" :> <<57, 51>> @@ "94" :> <<57, 52>> @@ "95" :> <<57, 53>> @@
  "96" :> <<57, 54>> @@ "97" :> <<57, 55>> @@ "98" :> <<57, 56>> @@
  "99" :> <<57, 57>> @@ "103" :> <<49, 48, 51>> @@ "104" :> <<49, 48, 52>> @@
  "105" :> <<49, 48, 53>> @@ "106" :> <<49, 48, 54>> @@ "107" :> <<49, 48, 55>> @@
  "108" :> <<49, 48, 56>> @@ "109" :> <<49, 48, 57>> @@ "110" :> <<49, 49, 48>> @@
  "111" :> <<49, 49, 49>> @@ "112" :> <<49, 49, 50>> @@ "113" :> <<49, 49, 51>> @@
  "114" :> <<49, 49, 52>> @@ "115" :> <<49, 49, 53>> @@ "116" :> <<49, 49, 54>> @@
  "117" :> <<49, 49, 55>> @@ "118" :> <<49, 49, 56>> @@ "119" :> <<49, 49, 57>> @@
  "120" :> <<49, 50, 48>> @@ "123" :> <<49, 50, 51>> @@ "124" :> <<49, 50, 52>> @@
  "125" :> <<49, 50, 53>> @@ "126" :> <<49, 50, 54>> @@ "127" :> <<49, 50, 55>> @@
  "128" :> <<49, 50, 56>> @@ "129" :> <<49, 50, 57>> @@ "130" :> <<49, 51, 48>> @@
  "131" :> <<49, 51, 49>> @@ "132" :> <<49, 51, 50>> @@ "133" :> <<49, 51, 51>> @@
  "139" :> <<49, 51, 57>> @@ "150" :> <<49, 53, 48>> @@ "201" :> <<50, 48, 49>> @@
  "204" :> <<50, 48, 52>> @@ "205" :> <<50, 48, 53>> @@ "206" :> <<50, 48, 54>> @@
  "310" :> <<51, 49, 48>> @@ "locations" :> <<108, 111, 99, 97, 116, 105, 111, 110, 115>> @@ "alerts" :> <<97, 108, 101, 114, 116, 115>>

\* client.endpoint (fs.go:13-15)
endpoint == "http://www3.septa.org"

(***************************************************************************)
(* uint64 values as 8 bytes, little endian.                                *)
(***************************************************************************)
U64(n) == <<n, 0, 0, 0, 0, 0, 0, 0>>

RECURSIVE XorByte(_, _, _)
XorByte(a, b, bits) ==
  IF bits = 0 THEN 0
  ELSE (((a % 2) + (b % 2)) % 2) + 2 * XorByte(a \div 2, b \div 2, bits - 1)

\* h * 0x100000001b3 mod 2^64: h * 0x1b3 plus h shifted left by 40 bits.
RECURSIVE MulFnvPrime(_, _, _)
MulFnvPrime(h, k, carry) ==
  IF k > 8 THEN << >>
  ELSE LET t == h[k] * 435 + (IF k > 5 THEN h[k - 5] ELSE 0) + carry
       IN  <<t % 256>> \o MulFnvPrime(h, k + 1, t \div 256)

\* hash/fnv New64a: the 64-bit FNV-1a offset basis 0xcbf29ce484222325.
FnvOffset64 == <<37, 35, 34, 132, 228, 156, 242, 203>>

\* fnv Write: for each byte, hash ^= byte; hash *= prime.
RECURSIVE FnvWrite(_, _)
FnvWrite(h, bytes) ==
  IF bytes = << >> THEN h
  ELSE FnvWrite(MulFnvPrime([h EXCEPT ![1] = XorByte(h[1], bytes[1], 8)], 1, 0),
                Tail(bytes))

\* The retry loop of GenerateDynamicInode: a zero sum is rehashed with 'x'.
RECURSIVE NonZeroSum(_)
NonZeroSum(h) == IF h # U64(0) THEN h ELSE NonZeroSum(FnvWrite(h, <<120>>))

\* fs.GenerateDynamicInode(parent, name) of bazil.org/fuse/fs, as called at
\* fs.go:98, 149 and 161: FNV-1a over the parent's 8 bytes, then the name.
GenerateDynamicInode(parent, name) ==
  NonZeroSum(FnvWrite(FnvWrite(FnvOffset64, parent), Utf8[name]))

(***************************************************************************)
(* File modes.  A mode is the os.ModeDir bit and the nine permission bits, *)
(* written in octal as in the source.                                      *)
(***************************************************************************)
Octal(u, g, o) == u * 64 + g * 8 + o

Nil == [type |-> "nil"]

(***************************************************************************)
(* Tree construction (fs.go:34-41, 91-103, 145-171).  A node is a record   *)
(* carrying its Go type in the field "type" and the struct's fields.       *)
(***************************************************************************)
\* Mutant: the alerts inode is derived from "locations" as well.
newBusTrolleyRoute_SameFileInode(route, inode, isBus) ==
  LET locations == [type  |-> "busTrolleyLocation",
                    route |-> route,
                    inode |-> GenerateDynamicInode(inode, "locations")]
      routeName == IF isBus THEN <<"bus_route_", route>>
                            ELSE <<"trolley_route_", route>>
      alerts    == [type  |-> "routeAlerts",
                    route |-> routeName,
                    inode |-> GenerateDynamicInode(inode, "locations")]
  IN  [type         |-> "busTrolleyRoute",
       route        |-> route,
       inode        |-> inode,
       isBus        |-> isBus,
       locationNode |-> locations,
       alertsNode   |-> alerts]

newBusTrolleyRoute(route, inode, isBus) ==
  LET locations == [type  |-> "busTrolleyLocation",
                    route |-> route,
                    inode |-> GenerateDynamicInode(inode, "locations")]
      routeName == IF isBus THEN <<"bus_route_", route>>
                            ELSE <<"trolley_route_", route>>
      alerts    == [type  |-> "routeAlerts",
                    route |-> routeName,
                    inode |-> GenerateDynamicInode(inode, "alerts")]
  IN  [type         |-> "busTrolleyRoute",
       route        |-> route,
       inode        |-> inode,
       isBus        |-> isBus,
       locationNode |-> locations,
       alertsNode   |-> alerts]

newBusTrolleyRoutes(routes, isBus, inode) ==
  [type       |-> "busTrolleyRoutes",
   routeNodes |-> [id \in Range(routes) |->
                     newBusTrolleyRoute(id, GenerateDynamicInode(inode, id), isBus)],
   routeIDs   |-> routes,
   inode      |-> inode]

\* Mutant: both catalogs are built with the other class flag.
FS_Root_FlagsSwapped ==
  [type        |-> "rootDir",
   trolleyNode |-> newBusTrolleyRoutes(tRouteIDs, TRUE, U64(2)),
   busNode     |-> newBusTrolleyRoutes(bRouteIDs, FALSE, U64(3))]
FS_Root ==
  [type        |-> "rootDir",
   trolleyNode |-> newBusTrolleyRoutes(tRouteIDs, FALSE, U64(2)),
   busNode     |-> newBusTrolleyRoutes(bRouteIDs, TRUE, U64(3))]

(***************************************************************************)
(* Attr (fs.go:51-56, 105-110, 173-178, 228-234, 273-279).                 *)
(***************************************************************************)
rootDir_Attr(r) == [Inode |-> U64(1), Dir |-> TRUE, Perm |-> Octal(5, 5, 5)]

busTrolleyRoutes_Attr(r) == [Inode |-> r.inode, Dir |-> TRUE, Perm |-> Octal(0, 5, 5)]

busTrolleyRoute_Attr(r) == [Inode |-> r.inode, Dir |-> TRUE, Perm |-> Octal(5, 5, 5)]

busTrolleyLocation_Attr(v) == [Inode |-> v.inode, Dir |-> FALSE, Perm |-> Octal(4, 4, 4)]

routeAlerts_Attr(r) == [Inode |-> r.inode, Dir |-> FALSE, Perm |-> Octal(4, 4, 4)]

\* The fs.Node interface: the method of the node's dynamic type.
Attr(n) ==
  CASE n.type = "rootDir"            -> rootDir_Attr(n)
    [] n.type = "busTrolleyRoutes"   -> busTrolleyRoutes_Attr(n)
    [] n.type = "busTrolleyRoute"    -> busTrolleyRoute_Attr(n)
    [] n.type = "busTrolleyLocation" -> busTrolleyLocation_Attr(n)
    [] n.type = "routeAlerts"        -> routeAlerts_Attr(n)

(***************************************************************************)
(* ReadDir (fs.go:60-67, 124-134, 199-208).                                *)
(***************************************************************************)
Dirent(name, type) == [Name |-> name, Type |-> type]

rootDir_ReadDir(r) == <<Dirent("trolley", "DT_Dir"), Dirent("bus", "DT_Dir")>>

\* Mutant: the entries are filled from the end of routeIDs.
busTrolleyRoutes_ReadDir_Reversed(r) ==
  [i \in 1..Len(r.routeIDs) |-> Dirent(r.routeIDs[Len(r.routeIDs) + 1 - i], "DT_Dir")]

busTrolleyRoutes_ReadDir(r) ==
  [i \in 1..Len(r.routeIDs) |-> Dirent(r.routeIDs[i], "DT_Dir")]

\* Mutant: alerts is appended before locations.
busTrolleyRoute_ReadDir_AlertsFirst(r) ==
  << >> \o <<Dirent("alerts", "DT_File"), Dirent("locations", "DT_File")>>

busTrolleyRoute_ReadDir(r) ==
  << >> \o <<Dirent("locations", "DT_File"), Dirent("alerts", "DT_File")>>

ReadDir(n) ==
  CASE n.type = "rootDir"          -> rootDir_ReadDir(n)
    [] n.type = "busTrolleyRoutes" -> busTrolleyRoutes_ReadDir(n)
    [] n.type = "busTrolleyRoute"  -> busTrolleyRoute_ReadDir(n)

(***************************************************************************)
(* Lookup (fs.go:70-82, 112-122, 181-196): the pair (n, err).              *)
(***************************************************************************)
\* Mutant: the default case falls through to the bus directory.
rootDir_Lookup_DefaultBus(r, name) ==
  CASE name = "trolley" -> [n |-> r.trolleyNode, err |-> "nil"]
    [] OTHER            -> [n |-> r.busNode, err |-> "nil"]

rootDir_Lookup(r, name) ==
  CASE name = "trolley" -> [n |-> r.trolleyNode, err |-> "nil"]
    [] name = "bus"     -> [n |-> r.busNode, err |-> "nil"]
    [] OTHER            -> [n |-> Nil, err |-> "ENOENT"]

busTrolleyRoutes_Lookup(r, name) ==
  IF name \in DOMAIN r.routeNodes
  THEN [n |-> r.routeNodes[name], err |-> "nil"]
  ELSE [n |-> Nil, err |-> "ENOENT"]

busTrolleyRoute_Lookup(r, name) ==
  CASE name = "locations" -> [n |-> r.locationNode, err |-> "nil"]
    [] name = "alerts"    -> [n |-> r.alertsNode, err |-> "nil"]
    [] OTHER              -> [n |-> Nil, err |-> "ENOENT"]

Lookup(n, name) ==
  CASE n.type = "rootDir"          -> rootDir_Lookup(n, name)
    [] n.type = "busTrolleyRoutes" -> busTrolleyRoutes_Lookup(n, name)
    [] n.type = "busTrolleyRoute"  -> busTrolleyRoute_Lookup(n, name)

\* The node types that implement ReadDir and Lookup, and those that implement
\* Open and ReadAll.
IsDirNode(n) == n.type \in {"rootDir", "busTrolleyRoutes", "busTrolleyRoute"}
IsFileNode(n) == n.type \in {"busTrolleyLocation", "routeAlerts"}

(***************************************************************************)
(* Open (fs.go:217-225, 262-270): the response flags, and the handle.      *)
(***************************************************************************)
busTrolleyLocation_Open(v, flags) == [h |-> v, Flags |-> flags \cup {"OpenDirectIO"}, err |-> "nil"]

routeAlerts_Open(r, flags) == [h |-> r, Flags |-> flags \cup {"OpenDirectIO"}, err |-> "nil"]

Open(n, flags) ==
  CASE n.type = "busTrolleyLocation" -> busTrolleyLocation_Open(n, flags)
    [] n.type = "routeAlerts"        -> routeAlerts_Open(n, flags)

(***************************************************************************)
(* BusTrolley.String (api.go:86-97).  A float64 is held in millionths, so  *)
(* that %f, which prints six decimals, is exact; digits are characters.    *)
(***************************************************************************)
Digit(d) == <<"0", "1", "2", "3", "4", "5", "6", "7", "8", "9">>[d + 1]

RECURSIVE Digits(_)
Digits(n) == IF n < 10 THEN <<Digit(n)>> ELSE Digits(n \div 10) \o <<Digit(n % 10)>>

RECURSIVE FixedDigits(_, _)
FixedDigits(n, width) ==
  IF width = 0 THEN << >>
  ELSE FixedDigits(n \div 10, width - 1) \o <<Digit(n % 10)>>

Abs(n) == IF n < 0 THEN -n ELSE n

\* fmt verb %d
FormatInt(n) == (IF n < 0 THEN <<"-">> ELSE << >>) \o Digits(Abs(n))

\* fmt verb %f
FormatFloat(x) ==
  (IF x < 0 THEN <<"-">> ELSE << >>)
    \o Digits(Abs(x) \div 1000000) \o <<".">> \o FixedDigits(Abs(x) % 1000000, 6)

\* Mutant: the format ends at "minutes ago", without the last newline.
BusTrolley_String_NoFinalNewline(bt) ==
  <<"Latitude: ">> \o FormatFloat(bt.Lat) \o <<"\n">>
    \o <<"Longitude: ">> \o FormatFloat(bt.Lng) \o <<"\n">>
    \o <<"Direction: ", bt.Direction, "\n">>
    \o <<"Destination: ", bt.Destination, "\n">>
    \o <<"LastRead: ">> \o FormatInt(bt.LastRead) \o <<" minutes ago">>

BusTrolley_String(bt) ==
  <<"Latitude: ">> \o FormatFloat(bt.Lat) \o <<"\n">>
    \o <<"Longitude: ">> \o FormatFloat(bt.Lng) \o <<"\n">>
    \o <<"Direction: ", bt.Direction, "\n">>
    \o <<"Destination: ", bt.Destination, "\n">>
    \o <<"LastRead: ">> \o FormatInt(bt.LastRead) \o <<" minutes ago", "\n">>

(***************************************************************************)
(* traverseHTML and stripHTML (api.go:156-202).  An html.Node is a record  *)
(* of its Type, its Data (a tag name, or for a text node its characters)   *)
(* and its children in document order.                                     *)
(***************************************************************************)
TextNode(chars) == [Type |-> "TextNode", Data |-> chars, Children |-> << >>]
ElementNode(tag, kids) == [Type |-> "ElementNode", Data |-> tag, Children |-> kids]
DocumentNode(kids) == [Type |-> "DocumentNode", Data |-> "", Children |-> kids]
CommentNode(chars) == [Type |-> "CommentNode", Data |-> chars, Children |-> << >>]

RECURSIVE SkipTabs(_)
SkipTabs(s) == IF s # << >> /\ s[1] = "\t" THEN SkipTabs(Tail(s)) ELSE s

SkipOneSpace(s) == IF s # << >> /\ s[1] = " " THEN Tail(s) ELSE s

\* Mutant: the regexp is "\n\t*", without the optional space.
AfterMatch_NoSpace(s) == SkipTabs(Tail(s))

\* regexp "\n\t* ?": the text after one match that starts at a newline.
AfterMatch(s) == SkipOneSpace(SkipTabs(Tail(s)))

\* re.ReplaceAllString(s, ""): leftmost matches, each greedy, none overlapping.
RECURSIVE ReplaceAllString(_)
ReplaceAllString(s) ==
  IF s = << >> THEN << >>
  ELSE IF s[1] = "\n" THEN ReplaceAllString(AfterMatch(s))
  ELSE <<s[1]>> \o ReplaceAllString(Tail(s))

\* The p and h3 test of api.go:171.
AddsNewline(n) == n.Type = "ElementNode" /\ (n.Data = "p" \/ n.Data = "h3")

RECURSIVE traverseHTML(_)
RECURSIVE traverseChildren(_, _)
traverseChildren(kids, i) ==
  IF i > Len(kids) THEN << >>
  ELSE traverseHTML(kids[i]) \o traverseChildren(kids, i + 1)

traverseHTML(n) ==
  (IF n.Type = "TextNode" THEN ReplaceAllString(n.Data) ELSE << >>)
    \o traverseChildren(n.Children, 1)
    \o (IF AddsNewline(n) THEN <<"\n">> ELSE << >>)

\* What html.Parse builds around a fragment: html, an empty head, and body.
ParsedBody(kids) ==
  DocumentNode(<<ElementNode("html", <<ElementNode("head", << >>),
                                       ElementNode("body", kids)>>)>>)

Chars_Hello == <<"H", "e", "l", "l", "o", "\n", "\t", "w", "o", "r", "l", "d">>

\* html.Parse on the message texts the model's alert feed carries.  The last
\* stands for a text on which html.Parse reports an error.
html_Parse(s) ==
  CASE s = "A" -> [n |-> ParsedBody(<<TextNode(<<"A">>)>>), err |-> "nil"]
    [] s = "B" -> [n |-> ParsedBody(<<TextNode(<<"B">>)>>), err |-> "nil"]
    [] s = "X" -> [n |-> ParsedBody(<<TextNode(<<"X">>)>>), err |-> "nil"]
    [] s = "Y" -> [n |-> ParsedBody(<<TextNode(<<"Y">>)>>), err |-> "nil"]
    [] s = "<p>Hello\n\tworld</p>" ->
         [n |-> ParsedBody(<<ElementNode("p", <<TextNode(Chars_Hello)>>)>>),
          err |-> "nil"]
    [] OTHER -> [n |-> Nil, err |-> "html"]

stripHTML(s) ==
  LET p == html_Parse(s)
  IN  IF p.err # "nil" THEN [t |-> << >>, err |-> p.err]
      ELSE [t |-> traverseHTML(p.n), err |-> "nil"]

(***************************************************************************)
(* The HTTP exchange.  A response is what the remote end and the decoders  *)
(* make of one request: the error of http.Get, of ioutil.ReadAll, of       *)
(* Body.Close, and the value and error json.Unmarshal leaves.              *)
(***************************************************************************)
Response(get, read, close, value, json) ==
  [Get |-> get, Read |-> read, Close |-> close, Value |-> value, Json |-> json]

\* TransitView (api.go:129-154)
TransitView_URL(route) == <<endpoint, "/hackathon/TransitView/", route>>

TransitView(route, resp) ==
  CASE resp.Get # "nil"   -> [bts |-> << >>, err |-> resp.Get]
    [] resp.Read # "nil"  -> [bts |-> << >>, err |-> resp.Read]
    [] resp.Close # "nil" -> [bts |-> << >>, err |-> resp.Close]
    [] resp.Json # "nil"  -> [bts |-> << >>, err |-> resp.Json]
    [] OTHER              -> [bts |-> resp.Value, err |-> "nil"]

\* RouteAlerts (api.go:205-236).  The loop of lines 224-233, from index i
\* with the current value of err.
RouteAlerts_URL(route) ==
  <<endpoint, "/hackathon/Alerts/get_alert_data.php?req1=">> \o route

RECURSIVE RouteAlerts_Strip(_, _, _)
RouteAlerts_Strip(rts, i, err) ==
  IF i > Len(rts) THEN [rts |-> rts, err |-> err]
  ELSE LET adv  == stripHTML(rts[i].AdvisoryMessage)
           rts1 == [rts EXCEPT ![i].AdvisoryMessage = adv.t]
           cur  == stripHTML(rts[i].CurrentMessage)
           rts2 == [rts1 EXCEPT ![i].CurrentMessage = cur.t]
       IN  IF adv.err # "nil" THEN [rts |-> rts1, err |-> adv.err]
           ELSE IF cur.err # "nil" THEN [rts |-> rts2, err |-> cur.err]
           ELSE RouteAlerts_Strip(rts2, i + 1, cur.err)

RouteAlerts(route, resp) ==
  CASE resp.Get # "nil"   -> [rts |-> << >>, err |-> resp.Get]
    [] resp.Read # "nil"  -> [rts |-> << >>, err |-> resp.Read]
    [] resp.Close # "nil" -> [rts |-> << >>, err |-> resp.Close]
    [] OTHER              -> RouteAlerts_Strip(resp.Value, 1, resp.Json)

(***************************************************************************)
(* ReadAll (fs.go:238-253, 281-309): the pair (b, err), given the response *)
(* the request meets.                                                      *)
(***************************************************************************)
RECURSIVE AppendVehicles(_, _, _)
AppendVehicles(b, ret, i) ==
  IF i > Len(ret) THEN b
  ELSE LET btBytes == BusTrolley_String(ret[i]) \o <<"\n">>
       IN  AppendVehicles(b \o btBytes, ret, i + 1)

busTrolleyLocation_ReadAll(v, resp) ==
  LET r == TransitView(v.route, resp)
  IN  IF r.err # "nil" THEN [b |-> << >>, err |-> r.err]
      ELSE [b |-> AppendVehicles(<< >>, r.bts, 1), err |-> "nil"]

currentHeader == <<"CURRENT ALERTS:", "\n", "\n">>
advisoryHeader == <<"ADVISORIES:", "\n", "\n">>

\* Mutant: every current message is followed by a newline, the last too.
RECURSIVE AppendCurrent_AlwaysNewline(_, _, _)
AppendCurrent_AlwaysNewline(b, rts, i) ==
  IF i > Len(rts) THEN b
  ELSE AppendCurrent_AlwaysNewline(b \o rts[i].CurrentMessage \o <<"\n">>, rts, i + 1)

RECURSIVE AppendCurrent(_, _, _)
AppendCurrent(b, rts, i) ==
  IF i > Len(rts) THEN b
  ELSE LET altBytes == rts[i].CurrentMessage
                         \o (IF i < Len(rts) THEN <<"\n">> ELSE << >>)
       IN  AppendCurrent(b \o altBytes, rts, i + 1)

RECURSIVE AppendAdvisory(_, _, _)
AppendAdvisory(b, rts, i) ==
  IF i > Len(rts) THEN b
  ELSE LET altBytes == rts[i].AdvisoryMessage
                         \o (IF i < Len(rts) THEN <<"\n">> ELSE << >>)
       IN  AppendAdvisory(b \o altBytes, rts, i + 1)

routeAlerts_ReadAll(r, resp) ==
  LET a == RouteAlerts(r.route, resp)
  IN  IF a.err # "nil" THEN [b |-> << >>, err |-> a.err]
      ELSE [b |-> AppendAdvisory(
                    AppendCurrent(<< >> \o currentHeader, a.rts, 1) \o advisoryHeader,
                    a.rts, 1),
            err |-> "nil"]

ReadAll(n, resp) ==
  CASE n.type = "busTrolleyLocation" -> busTrolleyLocation_ReadAll(n, resp)
    [] n.type = "routeAlerts"        -> routeAlerts_ReadAll(n, resp)

RequestURL(n) ==
  CASE n.type = "busTrolleyLocation" -> TransitView_URL(n.route)
    [] n.type = "routeAlerts"        -> RouteAlerts_URL(n.route)

(***************************************************************************)
(* Bounds and inputs of the model.                                         *)
(***************************************************************************)
\* The FUSE server serves every request in its own goroutine; two callers
\* are enough to interleave any two requests.
Callers == {"c1", "c2"}

\* The names callers look up: the children of the root, one route of each
\* catalog, both file names, and names that differ from those in case only.
Names == {"trolley", "bus", "Bus", "10", "47m", "47M",
          "locations", "alerts", "Alerts"}

MaxVehicles == 3
MaxAlerts == 3
MaxTextLen == 5
MaxKids == 3

SeqsUpTo(S, n) == UNION { [1..k -> S] : k \in 0..n }

\* Decoded vehicle positions (api.go:55-61), coordinates in millionths.
Vehicles ==
  { [Lat |-> 1000000, Lng |-> 2000000, LastRead |-> 5,
     Direction |-> "N", Destination |-> "Center City"],
    [Lat |-> 39950000, Lng |-> -75160000, LastRead |-> 12,
     Direction |-> "SouthBound", Destination |-> "Frankford Transportation Center"] }

\* Decoded alerts (api.go:117-121), messages still carrying their markup.
Alerts ==
  { [RouteName |-> "rt", CurrentMessage |-> "A", AdvisoryMessage |-> "X"],
    [RouteName |-> "rt", CurrentMessage |-> "<p>Hello\n\tworld</p>", AdvisoryMessage |-> "Y"],
    [RouteName |-> "rt", CurrentMessage |-> "B", AdvisoryMessage |-> "<<<"] }

\* The responses a request may meet: a failed exchange, or a body on which
\* json.Unmarshal leaves a value and possibly an error.
Responses(values) ==
  { Response("transport", "nil", "nil", << >>, "nil"),
    Response("nil", "read", "nil", << >>, "nil"),
    Response("nil", "nil", "close", << >>, "nil") }
    \cup { Response("nil", "nil", "nil", v, j) : v \in values, j \in {"nil", "json"} }

ResponsesFor(n) ==
  CASE n.type = "busTrolleyLocation" -> Responses(SeqsUpTo(Vehicles, MaxVehicles))
    [] n.type = "routeAlerts"        -> Responses(SeqsUpTo(Alerts, MaxAlerts))

\* The responses of the specification with concurrent callers: feeds of at
\* most one record.  ReadSpec runs ReadAll on the longer feeds.
Served(n) ==
  CASE n.type = "busTrolleyLocation" -> Responses(SeqsUpTo(Vehicles, 1))
    [] n.type = "routeAlerts"        -> Responses(SeqsUpTo(Alerts, 1))

\* Parse trees for traverseHTML.
Alphabet == {"a", "\n", "\t", " "}
Tags == {"p", "h3", "div", "b"}
Kids == { TextNode(<<"a">>),
          TextNode(<<"\n", "\t", " ", "b">>),
          ElementNode("p", <<TextNode(<<"c">>)>>),
          CommentNode(<<"d">>) }
Docs ==
  { TextNode(t) : t \in SeqsUpTo(Alphabet, MaxTextLen) }
    \cup { ElementNode(tag, kids) : tag \in Tags, kids \in SeqsUpTo(Kids, MaxKids) }
    \cup { DocumentNode(kids) : kids \in SeqsUpTo(Kids, 1) }
    \cup { html_Parse("<p>Hello\n\tworld</p>").n }

(***************************************************************************)
(* State.  No method assigns to a field of a node (every receiver is a     *)
(* value), so the tree is the value FS_Root; the state is what the         *)
(* requests in progress hold.                                              *)
(*   node    per caller, the node its next request addresses               *)
(*   path    per caller, the names whose lookups led to node               *)
(*   pc      per caller, "idle", or "http" inside ReadAll awaiting http.Get*)
(*   req     per caller, the URL of the request in flight                  *)
(*   result  per caller, what its last completed call returned             *)
(*   arg, ret  input and output of a traverseHTML run on its own           *)
(***************************************************************************)
VARIABLES node, path, pc, req, result, arg, ret

vars == <<node, path, pc, req, result, arg, ret>>

NoResult == [op |-> "none", name |-> "", err |-> "nil", val |-> << >>]
NoReturn == [done |-> FALSE, val |-> << >>]

Init ==
  /\ node = [c \in Callers |-> FS_Root]
  /\ path = [c \in Callers |-> << >>]
  /\ pc = [c \in Callers |-> "idle"]
  /\ req = [c \in Callers |-> << >>]
  /\ result = [c \in Callers |-> NoResult]
  /\ arg = Nil
  /\ ret = NoReturn

\* A lookup request: Lookup on the addressed directory (fs.go:70-82, 112-122,
\* 181-196).  On success later requests address the node returned.
DoLookup(c) ==
  /\ pc[c] = "idle"
  /\ IsDirNode(node[c])
  /\ \E name \in Names :
       LET r == Lookup(node[c], name)
       IN  /\ result' = [result EXCEPT ![c] =
                           [op |-> "Lookup", name |-> name, err |-> r.err, val |-> r.n]]
           /\ IF r.err = "nil"
              THEN /\ node' = [node EXCEPT ![c] = r.n]
                   /\ path' = [path EXCEPT ![c] = Append(@, name)]
              ELSE UNCHANGED <<node, path>>
  /\ UNCHANGED <<pc, req, arg, ret>>

\* A path resolution starts over at the root node FS.Root returned.
DoRoot(c) ==
  /\ pc[c] = "idle"
  /\ path[c] # << >>
  /\ node' = [node EXCEPT ![c] = FS_Root]
  /\ path' = [path EXCEPT ![c] = << >>]
  /\ result' = [result EXCEPT ![c] = NoResult]
  /\ UNCHANGED <<pc, req, arg, ret>>

DoAttr(c) ==
  /\ pc[c] = "idle"
  /\ result' = [result EXCEPT ![c] =
                  [op |-> "Attr", name |-> "", err |-> "nil", val |-> Attr(node[c])]]
  /\ UNCHANGED <<node, path, pc, req, arg, ret>>

DoReadDir(c) ==
  /\ pc[c] = "idle"
  /\ IsDirNode(node[c])
  /\ result' = [result EXCEPT ![c] =
                  [op |-> "ReadDir", name |-> "", err |-> "nil", val |-> ReadDir(node[c])]]
  /\ UNCHANGED <<node, path, pc, req, arg, ret>>

DoOpen(c) ==
  /\ pc[c] = "idle"
  /\ IsFileNode(node[c])
  /\ LET o == Open(node[c], {})
     IN  result' = [result EXCEPT ![c] =
                      [op |-> "Open", name |-> "", err |-> o.err, val |-> o.Flags]]
  /\ UNCHANGED <<node, path, pc, req, arg, ret>>

\* ReadAll up to http.Get (fs.go:242 and api.go:130-133, fs.go:283 and
\* api.go:206-210): the URL is built and the request sent.
ReadAllRequest(c) ==
  /\ pc[c] = "idle"
  /\ IsFileNode(node[c])
  /\ pc' = [pc EXCEPT ![c] = "http"]
  /\ req' = [req EXCEPT ![c] = RequestURL(node[c])]
  /\ result' = [result EXCEPT ![c] = NoResult]
  /\ UNCHANGED <<node, path, arg, ret>>

\* The rest of ReadAll, on the response the request meets.
ReadAllReturn(c) ==
  /\ pc[c] = "http"
  /\ \E resp \in Served(node[c]) :
       LET r == ReadAll(node[c], resp)
       IN  result' = [result EXCEPT ![c] =
                        [op |-> "ReadAll", name |-> "", err |-> r.err, val |-> r.b]]
  /\ pc' = [pc EXCEPT ![c] = "idle"]
  /\ req' = [req EXCEPT ![c] = << >>]
  /\ UNCHANGED <<node, path, arg, ret>>

Next ==
  \E c \in Callers :
    \/ DoLookup(c)
    \/ DoRoot(c)
    \/ DoAttr(c)
    \/ DoReadDir(c)
    \/ DoOpen(c)
    \/ ReadAllRequest(c)
    \/ ReadAllReturn(c)

Spec == Init /\ [][Next]_vars

(***************************************************************************)
(* traverseHTML on its own: a parse tree is chosen and rendered.           *)
(***************************************************************************)
\* No caller: the function runs outside any request.
NoCallers ==
  /\ node = << >>
  /\ path = << >>
  /\ pc = << >>
  /\ req = << >>
  /\ result = << >>

StripInit ==
  /\ NoCallers
  /\ arg \in Docs
  /\ ret = NoReturn

Render ==
  /\ ~ret.done
  /\ ret' = [done |-> TRUE, val |-> traverseHTML(arg)]
  /\ UNCHANGED <<node, path, pc, req, result, arg>>

StripNext == Render

StripSpec == StripInit /\ [][StripNext]_vars

(***************************************************************************)
(* ReadAll on its own: a file node of the tree and the response its        *)
(* request meets are chosen, and ReadAll runs on them.                     *)
(***************************************************************************)
RECURSIVE Resolve(_, _, _)
Resolve(n, p, i) ==
  IF i > Len(p) THEN n ELSE Resolve(Lookup(n, p[i]).n, p, i + 1)

\* The node a walk from the root along the names of p ends at.
NodeAt(p) == Resolve(FS_Root, p, 1)

FilePaths ==
  { <<d, id, f>> : d \in {"trolley"}, id \in {"10", "101"}, f \in {"locations", "alerts"} }
    \cup { <<d, id, f>> : d \in {"bus"}, id \in {"47m", "LUCY"}, f \in {"locations", "alerts"} }

ReadInputs ==
  UNION { { [p |-> p, n |-> NodeAt(p), resp |-> r] : r \in ResponsesFor(NodeAt(p)) }
          : p \in FilePaths }

ReadInit ==
  /\ NoCallers
  /\ arg \in ReadInputs
  /\ ret = NoReturn

ReadRun ==
  /\ ~ret.done
  /\ ret' = [done |-> TRUE, val |-> ReadAll(arg.n, arg.resp)]
  /\ UNCHANGED <<node, path, pc, req, result, arg>>

ReadNext == ReadRun

ReadSpec == ReadInit /\ [][ReadNext]_vars

(***************************************************************************)
(* What the specification of the file system says of a path.               *)
(***************************************************************************)
\* The names a directory at path p has, by the layout
\*   /trolley/<id>/{locations,alerts}  and  /bus/<id>/{locations,alerts}.
ChildNames(p) ==
  CASE p = << >>                 -> {"trolley", "bus"}
    [] p = <<"trolley">>         -> Range(tRouteIDs)
    [] p = <<"bus">>             -> Range(bRouteIDs)
    [] Len(p) = 2                -> {"locations", "alerts"}
    [] OTHER                     -> {}

CatalogOf(class) == IF class = "bus" THEN bRouteIDs ELSE tRouteIDs

AllNames == Names \cup Range(tRouteIDs) \cup Range(bRouteIDs)

RouteListing == <<Dirent("locations", "DT_File"), Dirent("alerts", "DT_File")>>

\* Every path of the tree.
AllPaths ==
  {<< >>, <<"trolley">>, <<"bus">>}
    \cup { <<"trolley", id>> : id \in Range(tRouteIDs) }
    \cup { <<"bus", id>> : id \in Range(bRouteIDs) }
    \cup { <<"trolley", id, f>> : id \in Range(tRouteIDs), f \in {"locations", "alerts"} }
    \cup { <<"bus", id, f>> : id \in Range(bRouteIDs), f \in {"locations", "alerts"} }

\* The identity tokens Attr reports over the whole tree.
TreeInodes == { Attr(NodeAt(p)).Inode : p \in AllPaths }

\* C1: for every route identifier of a catalog, lookup of the class directory
\* on the root and then of the identifier succeeds and yields a directory whose
\* listing is exactly "locations" then "alerts", both files.
C1_RouteDirListsLocationsThenAlerts ==
  \A c \in Callers :
    /\ node[c].type = "rootDir" =>
         \A class \in {"trolley", "bus"} :
           \A i \in 1..Len(CatalogOf(class)) :
             LET d == Lookup(node[c], class)
                 r == Lookup(d.n, CatalogOf(class)[i])
             IN  /\ d.err = "nil"
                 /\ r.err = "nil"
                 /\ Attr(r.n).Dir
                 /\ ReadDir(r.n) = RouteListing
    /\ node[c].type = "busTrolleyRoutes" =>
         \A i \in 1..Len(CatalogOf(path[c][1])) :
           LET r == Lookup(node[c], CatalogOf(path[c][1])[i])
           IN  r.err = "nil" /\ Attr(r.n).Dir /\ ReadDir(r.n) = RouteListing
    /\ node[c].type = "busTrolleyRoute" /\ result[c].op = "ReadDir" =>
         result[c].val = RouteListing

C1_Witness ==
  \E c \in Callers :
    /\ path[c] = <<"bus", "47m">>
    /\ result[c].op = "ReadDir"
    /\ result[c].val = RouteListing

C3_InodesUnique ==
  /\ Attr(NodeAt(<< >>)).Inode = U64(1)
  /\ Attr(NodeAt(<<"trolley">>)).Inode = U64(2)
  /\ Attr(NodeAt(<<"bus">>)).Inode = U64(3)
  /\ Cardinality(TreeInodes) = Cardinality(AllPaths)
  /\ \A c \in Callers : Attr(node[c]).Inode \in TreeInodes
  /\ \A c1, c2 \in Callers :
       path[c1] # path[c2] => Attr(node[c1]).Inode # Attr(node[c2]).Inode

C3_Witness ==
  \E c1, c2 \in Callers :
    /\ path[c1] = <<"trolley", "10", "locations">>
    /\ path[c2] = <<"bus", "47m", "alerts">>
    /\ result[c1].op = "Attr"
    /\ result[c2].op = "Attr"
    /\ result[c1].val.Inode # result[c2].val.Inode

\* C4: Attr of every directory reports a directory with mode 0555, and Attr of
\* every locations and alerts file a non-directory with mode 0444.
C4_Modes ==
  \A c \in Callers :
    result[c].op = "Attr" =>
      IF Len(path[c]) < 3
      THEN result[c].val.Dir /\ result[c].val.Perm = Octal(5, 5, 5)
      ELSE ~result[c].val.Dir /\ result[c].val.Perm = Octal(4, 4, 4)

(***************************************************************************)
(* ReadAll of a locations file.                                            *)
(***************************************************************************)
Succeeded(resp) ==
  resp.Get = "nil" /\ resp.Read = "nil" /\ resp.Close = "nil" /\ resp.Json = "nil"

\* One line: its pieces, ended by one newline.
Line(pieces) == pieces \o <<"\n">>

\* The five-line block of one position.
Block(bt) ==
  Line(<<"Latitude: ">> \o FormatFloat(bt.Lat))
    \o Line(<<"Longitude: ">> \o FormatFloat(bt.Lng))
    \o Line(<<"Direction: ", bt.Direction>>)
    \o Line(<<"Destination: ", bt.Destination>>)
    \o Line(<<"LastRead: ">> \o FormatInt(bt.LastRead) \o <<" minutes ago">>)

RECURSIVE Flatten(_)
Flatten(ss) == IF ss = << >> THEN << >> ELSE Head(ss) \o Flatten(Tail(ss))

Newlines(b) == Cardinality({ i \in DOMAIN b : b[i] = "\n" })

\* A line with nothing on it: a newline at the start or right after a newline.
EmptyLines(b) ==
  Cardinality({ i \in DOMAIN b : b[i] = "\n" /\ (i = 1 \/ b[i - 1] = "\n") })

LocationsRead == ret.done /\ arg.n.type = "busTrolleyLocation" /\ Succeeded(arg.resp)

\* C5 as stated: the content is the blocks of the positions in input order and
\* nothing between them: 5*n lines, none empty.
C5_BlocksWithoutSeparator ==
  LocationsRead =>
    LET ps == arg.resp.Value
    IN  /\ ret.val.err = "nil"
        /\ ret.val.b = Flatten([i \in DOMAIN ps |-> Block(ps[i])])
        /\ Newlines(ret.val.b) = 5 * Len(ps)
        /\ EmptyLines(ret.val.b) = 0

\* C5 as amended: the content is, in input order, the block of each position
\* followed by one more newline: 6*n newlines, one empty line after every
\* block, and nothing for n = 0.
C5_BlocksEachFollowedByEmptyLine ==
  LocationsRead =>
    LET ps == arg.resp.Value
    IN  /\ ret.val.err = "nil"
        /\ ret.val.b = Flatten([i \in DOMAIN ps |-> Block(ps[i]) \o <<"\n">>])
        /\ \A i \in DOMAIN ps : Newlines(Block(ps[i])) = 5
        /\ Newlines(ret.val.b) = 6 * Len(ps)
        /\ EmptyLines(ret.val.b) = Len(ps)
        /\ (Len(ps) = 0 => ret.val.b = << >>)

C5_Witness ==
  /\ LocationsRead
  /\ Len(arg.resp.Value) = 2
  /\ arg.resp.Value[1] # arg.resp.Value[2]
  /\ Newlines(ret.val.b) = 12

(***************************************************************************)
(* ReadAll of an alerts file.                                              *)
(***************************************************************************)
RECURSIVE Join(_, _)
Join(ss, sep) ==
  IF ss = << >> THEN << >>
  ELSE IF Len(ss) = 1 THEN ss[1]
  ELSE ss[1] \o sep \o Join(Tail(ss), sep)

AlertsRead == ret.done /\ arg.n.type = "routeAlerts"

\* C6: when the alert fetch succeeds with alerts a1..an, the content is the
\* header "CURRENT ALERTS:\n\n", the current messages joined by one newline,
\* the header "ADVISORIES:\n\n", and the advisory messages joined by one
\* newline, with no newline after the last message of either section.
C6_AlertsContent ==
  AlertsRead =>
    LET a == RouteAlerts(arg.n.route, arg.resp)
    IN  a.err = "nil" =>
          /\ ret.val.err = "nil"
          /\ ret.val.b =
               <<"CURRENT ALERTS:", "\n", "\n">>
                 \o Join([i \in DOMAIN a.rts |-> a.rts[i].CurrentMessage], <<"\n">>)
                 \o <<"ADVISORIES:", "\n", "\n">>
                 \o Join([i \in DOMAIN a.rts |-> a.rts[i].AdvisoryMessage], <<"\n">>)

C6_Witness ==
  /\ AlertsRead
  /\ Succeeded(arg.resp)
  /\ Len(arg.resp.Value) = 2
  /\ ret.val.err = "nil"
  /\ ret.val.b = <<"CURRENT ALERTS:", "\n", "\n", "A", "\n",
                   "H", "e", "l", "l", "o", "w", "o", "r", "l", "d", "\n",
                   "ADVISORIES:", "\n", "\n", "X", "\n", "Y">>

\* Whether html.Parse fails on a message of the decoded alerts.
SomeMessageUnparsable(rts) ==
  \E i \in DOMAIN rts :
    \/ html_Parse(rts[i].CurrentMessage).err # "nil"
    \/ html_Parse(rts[i].AdvisoryMessage).err # "nil"

\* C7: whenever the request fails, reading or closing the body fails, JSON
\* decoding reports an error (also after some records were decoded) or markup
\* parsing of a message fails, ReadAll returns an error and no content.
C7_ErrorsSurface ==
  ret.done =>
    ( ( \/ ~Succeeded(arg.resp)
        \/ arg.n.type = "routeAlerts" /\ SomeMessageUnparsable(arg.resp.Value) )
      => (ret.val.err # "nil" /\ ret.val.b = << >>) )

(***************************************************************************)
(* Statelessness and listing order.                                        *)
(***************************************************************************)
CatalogListing(ids) == [i \in 1..Len(ids) |-> Dirent(ids[i], "DT_Dir")]

\* C8: whatever calls have been made and are in progress, the root lists
\* "trolley" then "bus", a catalog directory lists its route identifiers once
\* each in catalog order as directories, and a path leads to the same node,
\* with the same identity token, for every caller and at every time.
C8_ListingAndIdentityStable ==
  /\ ReadDir(NodeAt(<< >>)) = <<Dirent("trolley", "DT_Dir"), Dirent("bus", "DT_Dir")>>
  /\ \A class \in {"trolley", "bus"} :
       /\ ReadDir(NodeAt(<<class>>)) = CatalogListing(CatalogOf(class))
       /\ Cardinality(Range(CatalogOf(class))) = Len(CatalogOf(class))
  /\ \A c \in Callers :
       /\ node[c] = NodeAt(path[c])
       /\ result[c].op = "ReadDir" => result[c].val = ReadDir(NodeAt(path[c]))
       /\ result[c].op = "Attr" => result[c].val = Attr(NodeAt(path[c]))
       /\ result[c].op = "ReadDir" /\ path[c] = << >> =>
            result[c].val = <<Dirent("trolley", "DT_Dir"), Dirent("bus", "DT_Dir")>>
       /\ result[c].op = "ReadDir" /\ Len(path[c]) = 1 =>
            result[c].val = CatalogListing(CatalogOf(path[c][1]))
  /\ \A c1, c2 \in Callers :
       path[c1] = path[c2] => Attr(node[c1]).Inode = Attr(node[c2]).Inode

C8_Witness ==
  \E c1, c2 \in Callers :
    /\ c1 # c2
    /\ pc[c1] = "http"
    /\ path[c2] = <<"bus">>
    /\ result[c2].op = "ReadDir"
    /\ Len(result[c2].val) = Len(bRouteIDs)
    /\ result[c2].val[Len(bRouteIDs)] = Dirent("310", "DT_Dir")

(***************************************************************************)
(* The request of each file.                                               *)
(***************************************************************************)
ExpectedURL(p) ==
  IF p[3] = "alerts"
  THEN <<"http://www3.septa.org", "/hackathon/Alerts/get_alert_data.php?req1=",
         (IF p[1] = "bus" THEN "bus_route_" ELSE "trolley_route_"), p[2]>>
  ELSE <<"http://www3.septa.org", "/hackathon/TransitView/", p[2]>>

\* C9: ReadAll of <class>/<id>/alerts requests the alert feed for
\* "bus_route_" + id or "trolley_route_" + id by its class, and ReadAll of
\* <class>/<id>/locations the position feed for id, for every id of the
\* catalog, and for no other route or class.
C9_RequestIsForOwnRoute ==
  \A c \in Callers :
    /\ pc[c] = "http" => req[c] = ExpectedURL(path[c])
    /\ node[c].type = "busTrolleyRoutes" =>
         \A i \in 1..Len(CatalogOf(path[c][1])) :
           LET id == CatalogOf(path[c][1])[i]
               r  == Lookup(node[c], id).n
           IN  \A f \in {"locations", "alerts"} :
                 RequestURL(Lookup(r, f).n) = ExpectedURL(path[c] \o <<id, f>>)

C9_Witness ==
  \E c1, c2 \in Callers :
    /\ pc[c1] = "http"
    /\ path[c1] = <<"bus", "47m", "alerts">>
    /\ req[c1] = <<"http://www3.septa.org", "/hackathon/Alerts/get_alert_data.php?req1=",
                   "bus_route_", "47m">>
    /\ pc[c2] = "http"
    /\ path[c2] = <<"trolley", "10", "locations">>

(***************************************************************************)
(* Markup stripping.                                                       *)
(***************************************************************************)
\* Position i of s lies in a run of one newline, then tabs, then at most one
\* space: it is the newline, or a tab or a space that only tabs separate from
\* the newline before it.
InRun(s, i) ==
  \/ s[i] = "\n"
  \/ /\ s[i] \in {"\t", " "}
     /\ \E j \in 1..(i - 1) :
          s[j] = "\n" /\ \A k \in (j + 1)..(i - 1) : s[k] = "\t"

RECURSIVE WithoutRuns(_, _)
WithoutRuns(s, i) ==
  IF i > Len(s) THEN << >>
  ELSE (IF InRun(s, i) THEN << >> ELSE <<s[i]>>) \o WithoutRuns(s, i + 1)

RECURSIVE Rendered(_)
Rendered(n) ==
  LET own  == IF n.Type = "TextNode" THEN WithoutRuns(n.Data, 1) ELSE << >>
      kids == Flatten([i \in DOMAIN n.Children |-> Rendered(n.Children[i])])
  IN  IF n.Type = "ElementNode" /\ n.Data \in {"p", "h3"}
      THEN own \o kids \o <<"\n">>
      ELSE own \o kids

\* C10: stripping renders the tree depth first, children in document order: a
\* text node gives its text without the runs of newline, tabs and one space; a
\* p or h3 element its descendants' text and one newline; any other node its
\* descendants' text.  "<p>Hello\n\tworld</p>" renders as "Helloworld\n".
C10_StripRendersTree ==
  ret.done =>
    /\ ret.val = Rendered(arg)
    /\ arg = html_Parse("<p>Hello\n\tworld</p>").n =>
         ret.val = <<"H", "e", "l", "l", "o", "w", "o", "r", "l", "d", "\n">>

C10_Witness ==
  /\ ret.done
  /\ arg = html_Parse("<p>Hello\n\tworld</p>").n
  /\ ret.val = <<"H", "e", "l", "l", "o", "w", "o", "r", "l", "d", "\n">>
=============================================================================
